---- MODULE Spec2Model ----
(***************************************************************************)
(* Model of VARQUERY_Search (client/src/varquery.c): the search driver     *)
(* that builds a VarQuery descriptor, walks the variable server's registry *)
(* with VAR_GetFirst / VAR_GetNext and writes one record per match to the  *)
(* output file descriptor.                                                 *)
(*                                                                         *)
(* Strings are sequences of one-character strings, the output descriptor   *)
(* is the sequence of characters written so far.  The variable server      *)
(* library (VAR_GetFirst, VAR_GetNext, VAR_Print) is not part of the       *)
(* source file; it is modelled from the specification's sections 4.2, 4.3  *)
(* and 6.                                                                  *)
(***************************************************************************)
EXTENDS Integers, Sequences, FiniteSets, TLC

VARIABLES reg, hValid, args, query, result, ret, sink, calls, pc

vars == <<reg, hValid, args, query, result, ret, sink, calls, pc>>

(***************************************************************************)
(* Bounds of the model                                                     *)
(***************************************************************************)
\* longest registry enumerated
MaxVars == 2
\* size of the descriptor's tagspec buffer (declared outside this file)
MAX_TAGSPEC_LEN == 16
\* calls a cursor client makes at most (second specification)
MaxCursorCalls == 4

(***************************************************************************)
(* Program constants                                                       *)
(***************************************************************************)
EOK == 0
ENOENT == 2
EINVAL == 22
QUERY_REGEX == 1
QUERY_MATCH == 2
QUERY_FLAGS == 4
QUERY_TAGS == 8
QUERY_INSTANCEID == 16
QUERY_SHOWVALUE == 32
\* value of ret while VARQUERY_Search has not returned
NoReturn == -1
\* uint32_t values are kept as two 16-bit halves, hi * 65536 + lo
Half == 65536
SignBit == 32768

(***************************************************************************)
(* Strings                                                                 *)
(***************************************************************************)
\* a char* argument: NULL or a pointer to a string
NullPtr == [null |-> TRUE, str |-> <<>>]
StrPtr(s) == [null |-> FALSE, str |-> s]

sensor == <<"s", "e", "n", "s", "o", "r">>
outdoor == <<"o", "u", "t", "d", "o", "o", "r">>
temp == <<"t", "e", "m", "p">>
humidity == <<"h", "u", "m", "i", "d", "i", "t", "y">>
volt == <<"v", "o", "l", "t">>

\* a string of n characters
Pad(n) == [i \in 1..n |-> "x"]

\* the bit b (a power of two) is set in the bitfield x
HasBit(x, b) == (x \div b) % 2 = 1

\* pat occurs in s as a contiguous substring
IsSubstr(pat, s) ==
    \E i \in 0..(Len(s) - Len(pat)) :
        \A k \in 1..Len(pat) : s[i + k] = pat[k]

Digits == <<"0", "1", "2", "3", "4", "5", "6", "7", "8", "9">>

\* a uint32_t from its halves
U32(h, l) == [hi |-> h, lo |-> l]

\* quotient and remainder of a uint32_t divided by ten
DivMod10(v) ==
    LET mid == (v.hi % 10) * Half + v.lo
    IN  [q |-> U32(v.hi \div 10, mid \div 10), r |-> mid % 10]

\* decimal digits of a uint32_t (the quotient and remainder are bound once,
\* as the only element of a set, so that each division is evaluated once)
RECURSIVE DecU(_)
DecU(v) == IF v.hi = 0 /\ v.lo < 10 THEN <<Digits[v.lo + 1]>>
           ELSE CHOOSE t \in { DecU(d.q) \o <<Digits[d.r + 1]>> :
                                   d \in {DivMod10(v)} } : TRUE

\* two's complement negation modulo 2^32
Neg32(v) == U32(((Half - 1) - v.hi + (IF v.lo = 0 THEN 1 ELSE 0)) % Half,
                (Half - v.lo) % Half)

\* printf "%d" applied to a uint32_t: the 32 bits are read as an int
FmtD(v) == IF v.hi >= SignBit THEN <<"-">> \o DecU(Neg32(v)) ELSE DecU(v)

(***************************************************************************)
(* The registry's variables and the caller's arguments                     *)
(***************************************************************************)
VarPool ==
    { [name |-> temp, instanceID |-> U32(0, 0), flags |-> 1,
       tags |-> {sensor}, value |-> <<"2", "1">>],
      [name |-> humidity, instanceID |-> U32(0, 2), flags |-> 2,
       tags |-> {sensor, outdoor}, value |-> <<"4", "0">>],
      [name |-> volt, instanceID |-> U32(SignBit, 0), flags |-> 4,
       tags |-> {}, value |-> <<"5">>],
      [name |-> temp, instanceID |-> U32(Half - 1, Half - 1), flags |-> 3,
       tags |-> {outdoor}, value |-> <<"-", "3">>] }

\* registries: sequences of distinct variables, in enumeration order
Registries ==
    UNION { { r \in [1..n -> VarPool] :
                \A i, j \in 1..n : i # j => r[i] # r[j] } : n \in 0..MaxVars }

SearchTypes == 0..63
Matches == {NullPtr, StrPtr(<<"m">>)}
TagSpecs == {NullPtr, StrPtr(sensor), StrPtr(sensor \o <<",">> \o outdoor),
             StrPtr(Pad(MAX_TAGSPEC_LEN))}
InstanceIDs == {U32(0, 0), U32(0, 2)}
FlagMasks == {0, 2}

ArgSets == [searchType : SearchTypes, match : Matches, tagspec : TagSpecs,
            instanceID : InstanceIDs, flags : FlagMasks]

\* memset( &query, 0, sizeof( VarQuery ) )
ZeroQuery == [type |-> 0, instanceID |-> U32(0, 0), match |-> NullPtr, flags |-> 0,
              tagspec |-> <<>>, name |-> <<>>, hVar |-> 0, context |-> 0]

Init ==
    /\ reg \in Registries
    /\ hValid = TRUE
    /\ args \in ArgSets
    /\ query = ZeroQuery
    /\ result = EINVAL
    /\ ret = NoReturn
    /\ sink = <<>>
    /\ calls = <<>>
    /\ pc = "build"

\* BuildQuery whose length test is off by one: a tagspec of exactly
\* MAX_TAGSPEC_LEN characters is copied
BuildQuery_OffByOne(a) ==
    [ZeroQuery EXCEPT
        !.type = a.searchType,
        !.instanceID = a.instanceID,
        !.match = a.match,
        !.flags = a.flags,
        !.tagspec = IF (~a.tagspec.null) /\ Len(a.tagspec.str) <= MAX_TAGSPEC_LEN
                    THEN a.tagspec.str
                    ELSE <<>>]

\* BuildQuery that leaves out "query.flags = flags"
BuildQuery_NoFlags(a) ==
    [ZeroQuery EXCEPT
        !.type = a.searchType,
        !.instanceID = a.instanceID,
        !.match = a.match,
        !.tagspec = IF (~a.tagspec.null) /\ Len(a.tagspec.str) < MAX_TAGSPEC_LEN
                    THEN a.tagspec.str
                    ELSE <<>>]

\* lines 135-149: fill in the descriptor from the arguments
BuildQuery(a) ==
    [ZeroQuery EXCEPT
        !.type = a.searchType,
        !.instanceID = a.instanceID,
        !.match = a.match,
        !.flags = a.flags,
        !.tagspec = IF (~a.tagspec.null) /\ Len(a.tagspec.str) < MAX_TAGSPEC_LEN
                    THEN a.tagspec.str
                    ELSE <<>>]

Build ==
    /\ pc = "build"
    /\ query' = BuildQuery(args)
    /\ pc' = "first"
    /\ UNCHANGED <<reg, hValid, args, result, ret, sink, calls>>

(***************************************************************************)
(* The variable server library, from the specification (4.2, 4.3, 6)       *)
(***************************************************************************)
\* bitwise AND of two naturals
RECURSIVE BitAnd(_, _)
BitAnd(a, b) == IF a = 0 \/ b = 0 THEN 0
                ELSE 2 * BitAnd(a \div 2, b \div 2) + ((a % 2) * (b % 2))

\* the tag tokens of a tag specification: split on commas, empty tokens dropped
RECURSIVE SplitTags(_, _)
SplitTags(s, cur) ==
    IF s = <<>> THEN (IF cur = <<>> THEN {} ELSE {cur})
    ELSE IF Head(s) = ","
         THEN (IF cur = <<>> THEN {} ELSE {cur}) \cup SplitTags(Tail(s), <<>>)
         ELSE SplitTags(Tail(s), Append(cur, Head(s)))

TagTokens(s) == SplitTags(s, <<>>)

\* the name pattern of a descriptor; a NULL match is the empty pattern
Pattern(q) == IF q.match.null THEN <<>> ELSE q.match.str

\* 4.2: all active filters are ANDed; patterns are literal, searched anywhere
MatchVar(q, v) ==
    /\ HasBit(q.type, QUERY_REGEX) => IsSubstr(Pattern(q), v.name)
    /\ HasBit(q.type, QUERY_MATCH) => IsSubstr(Pattern(q), v.name)
    /\ HasBit(q.type, QUERY_FLAGS) => BitAnd(v.flags, q.flags) # 0
    /\ HasBit(q.type, QUERY_TAGS) => TagTokens(q.tagspec) \subseteq v.tags
    /\ HasBit(q.type, QUERY_INSTANCEID) => v.instanceID = q.instanceID

\* index of the first variable of r at or after position i that q matches,
\* 0 when there is none
FindFrom(r, q, i) ==
    IF \E j \in i..Len(r) : MatchVar(q, r[j])
    THEN CHOOSE j \in i..Len(r) :
             /\ MatchVar(q, r[j])
             /\ \A k \in i..(j - 1) : ~MatchVar(q, r[k])
    ELSE 0

\* CursorStep that forgets its position when it reports exhaustion, so that
\* a later next starts over
CursorStep_ResetOnEnd(r, valid, q, i) ==
    IF ~valid THEN [rc |-> EINVAL, query |-> q]
    ELSE LET j == FindFrom(r, q, i)
         IN  IF j = 0 THEN [rc |-> ENOENT, query |-> [q EXCEPT !.context = 0]]
             ELSE [rc |-> EOK,
                   query |-> [q EXCEPT !.name = r[j].name,
                                       !.instanceID = r[j].instanceID,
                                       !.hVar = j,
                                       !.context = j]]

\* outcome of a cursor step that resumes at position i
CursorStep(r, valid, q, i) ==
    IF ~valid THEN [rc |-> EINVAL, query |-> q]
    ELSE LET j == FindFrom(r, q, i)
         IN  IF j = 0 THEN [rc |-> ENOENT, query |-> q]
             ELSE [rc |-> EOK,
                   query |-> [q EXCEPT !.name = r[j].name,
                                       !.instanceID = r[j].instanceID,
                                       !.hVar = j,
                                       !.context = j]]

\* first(descriptor): a fresh traversal of the registry
VAR_GetFirst(r, valid, q) == CursorStep(r, valid, q, 1)

\* next(descriptor): resume after the position recorded in the descriptor
VAR_GetNext(r, valid, q) == CursorStep(r, valid, q, q.context + 1)

\* registryRenderValue: the text written for the variable behind a handle
VAR_Print(r, valid, h) ==
    IF valid /\ h \in 1..Len(r) THEN r[h].value ELSE <<>>

\* the registry connection becomes invalid while a search is under way
ConnLost ==
    /\ hValid
    /\ pc \notin {"return", "done"}
    /\ hValid' = FALSE
    /\ UNCHANGED <<reg, args, query, result, ret, sink, calls, pc>>

(***************************************************************************)
(* VARQUERY_Search, statement by statement                                 *)
(***************************************************************************)
\* one entry of the log of library calls: the call, its result, the handle
\* it returned or was given, and how much output had been written
Call(op, rc, h) == [op |-> op, rc |-> rc, h |-> h, at |-> Len(sink)]

\* CallGetFirst of a loop that advances before it emits: the first match is
\* never written
CallGetFirst_SkipEmit ==
    /\ pc = "first"
    /\ LET r == VAR_GetFirst(reg, hValid, query)
       IN  /\ query' = r.query
           /\ result' = r.rc
           /\ calls' = Append(calls, Call("first", r.rc, r.query.hVar))
           /\ pc' = IF r.rc = EOK THEN "next" ELSE "return"
    /\ UNCHANGED <<reg, hValid, args, ret, sink>>

\* CallGetFirst of a do/while loop: the body runs before the result is tested
CallGetFirst_DoWhile ==
    /\ pc = "first"
    /\ LET r == VAR_GetFirst(reg, hValid, query)
       IN  /\ query' = r.query
           /\ result' = r.rc
           /\ calls' = Append(calls, Call("first", r.rc, r.query.hVar))
           /\ pc' = "emit_name"
    /\ UNCHANGED <<reg, hValid, args, ret, sink>>

\* line 151: result = VAR_GetFirst( hVarServer, &query, NULL )
CallGetFirst ==
    /\ pc = "first"
    /\ LET r == VAR_GetFirst(reg, hValid, query)
       IN  /\ query' = r.query
           /\ result' = r.rc
           /\ calls' = Append(calls, Call("first", r.rc, r.query.hVar))
           /\ pc' = IF r.rc = EOK THEN "emit_name" ELSE "return"
    /\ UNCHANGED <<reg, hValid, args, ret, sink>>

\* NameText without the test for instance id 0: the prefix is always written
NameText_AlwaysBracket(q) ==
    <<"[">> \o FmtD(q.instanceID) \o <<"]">> \o q.name

\* lines 154-161: the name, prefixed by [instanceID] when that is not 0
NameText(q) ==
    IF q.instanceID = U32(0, 0) THEN q.name
    ELSE <<"[">> \o FmtD(q.instanceID) \o <<"]">> \o q.name

\* EmitName testing the wrong bit of searchType for the value suffix
EmitName_WrongBit ==
    /\ pc = "emit_name"
    /\ sink' = sink \o NameText(query)
    /\ pc' = IF HasBit(args.searchType, QUERY_INSTANCEID)
             THEN "emit_eq" ELSE "emit_nl"
    /\ UNCHANGED <<reg, hValid, args, query, result, ret, calls>>

EmitName ==
    /\ pc = "emit_name"
    /\ sink' = sink \o NameText(query)
    /\ pc' = IF HasBit(args.searchType, QUERY_SHOWVALUE)
             THEN "emit_eq" ELSE "emit_nl"
    /\ UNCHANGED <<reg, hValid, args, query, result, ret, calls>>

\* line 165: dprintf(fd, "=" )
EmitEq ==
    /\ pc = "emit_eq"
    /\ sink' = Append(sink, "=")
    /\ pc' = "print"
    /\ UNCHANGED <<reg, hValid, args, query, result, ret, calls>>

\* CallPrint of a loop that goes on to the next step right after the value,
\* leaving the record without its newline
CallPrint_NoNewline ==
    /\ pc = "print"
    /\ sink' = sink \o VAR_Print(reg, hValid, query.hVar)
    /\ calls' = Append(calls, Call("print", IF hValid THEN EOK ELSE EINVAL, query.hVar))
    /\ pc' = "next"
    /\ UNCHANGED <<reg, hValid, args, query, result, ret>>

\* line 166: VAR_Print( hVarServer, query.hVar, fd )
CallPrint ==
    /\ pc = "print"
    /\ sink' = sink \o VAR_Print(reg, hValid, query.hVar)
    /\ calls' = Append(calls, Call("print", IF hValid THEN EOK ELSE EINVAL, query.hVar))
    /\ pc' = "emit_nl"
    /\ UNCHANGED <<reg, hValid, args, query, result, ret>>

\* EmitNewline with the newline inside the QUERY_SHOWVALUE branch
EmitNewline_OnlyWithValue ==
    /\ pc = "emit_nl"
    /\ sink' = IF HasBit(args.searchType, QUERY_SHOWVALUE)
               THEN Append(sink, "\n") ELSE sink
    /\ pc' = "next"
    /\ UNCHANGED <<reg, hValid, args, query, result, ret, calls>>

\* line 169: dprintf(fd, "\n")
EmitNewline ==
    /\ pc = "emit_nl"
    /\ sink' = Append(sink, "\n")
    /\ pc' = "next"
    /\ UNCHANGED <<reg, hValid, args, query, result, ret, calls>>

\* CallGetNext that calls VAR_GetFirst again instead of VAR_GetNext
CallGetNext_Restart ==
    /\ pc = "next"
    /\ LET r == VAR_GetFirst(reg, hValid, query)
       IN  /\ query' = r.query
           /\ result' = r.rc
           /\ calls' = Append(calls, Call("next", r.rc, r.query.hVar))
           /\ pc' = IF r.rc = EOK THEN "emit_name" ELSE "return"
    /\ UNCHANGED <<reg, hValid, args, ret, sink>>

\* CallGetNext whose loop test is "result != ENOENT": a fault keeps looping
CallGetNext_LoopOnFault ==
    /\ pc = "next"
    /\ LET r == VAR_GetNext(reg, hValid, query)
       IN  /\ query' = r.query
           /\ result' = r.rc
           /\ calls' = Append(calls, Call("next", r.rc, r.query.hVar))
           /\ pc' = IF r.rc # ENOENT THEN "emit_name" ELSE "return"
    /\ UNCHANGED <<reg, hValid, args, ret, sink>>

\* CallGetNext whose loop test is "result != EINVAL": the body runs again
\* after exhaustion
CallGetNext_EmitOnExhaust ==
    /\ pc = "next"
    /\ LET r == VAR_GetNext(reg, hValid, query)
       IN  /\ query' = r.query
           /\ result' = r.rc
           /\ calls' = Append(calls, Call("next", r.rc, r.query.hVar))
           /\ pc' = IF r.rc # EINVAL THEN "emit_name" ELSE "return"
    /\ UNCHANGED <<reg, hValid, args, ret, sink>>

\* CallGetNext that drops the result of VAR_GetNext: result stays EOK and the
\* loop never ends
CallGetNext_ResultDropped ==
    /\ pc = "next"
    /\ LET r == VAR_GetNext(reg, hValid, query)
       IN  /\ query' = r.query
           /\ calls' = Append(calls, Call("next", r.rc, r.query.hVar))
           /\ pc' = "emit_name"
    /\ UNCHANGED <<reg, hValid, args, result, ret, sink>>

\* lines 171-172: result = VAR_GetNext( ... ) and the loop test
CallGetNext ==
    /\ pc = "next"
    /\ LET r == VAR_GetNext(reg, hValid, query)
       IN  /\ query' = r.query
           /\ result' = r.rc
           /\ calls' = Append(calls, Call("next", r.rc, r.query.hVar))
           /\ pc' = IF r.rc = EOK THEN "emit_name" ELSE "return"
    /\ UNCHANGED <<reg, hValid, args, ret, sink>>

\* line 174: return result
Return ==
    /\ pc = "return"
    /\ ret' = result
    /\ pc' = "done"
    /\ UNCHANGED <<reg, hValid, args, query, result, sink, calls>>

Next ==
    \/ Build
    \/ CallGetFirst
    \/ EmitName
    \/ EmitEq
    \/ CallPrint
    \/ EmitNewline
    \/ CallGetNext
    \/ Return
    \/ ConnLost

Spec == Init /\ [][Next]_vars

\* the statements of VARQUERY_Search: the function is sequential and every
\* call it makes returns, so a statement that can run does run
Step ==
    \/ Build
    \/ CallGetFirst
    \/ EmitName
    \/ EmitEq
    \/ CallPrint
    \/ EmitNewline
    \/ CallGetNext
    \/ Return

\* the searches followed to their end: every search type, pattern and
\* instance id, with one flags mask and a NULL or fitting tagspec
InitLive ==
    /\ Init
    /\ args.tagspec \in {NullPtr, StrPtr(sensor)}
    /\ args.flags = 2

SpecLive == InitLive /\ [][Next]_vars /\ WF_vars(Step)

(***************************************************************************)
(* A cursor client (specification 2 and 4.3): first, then next as often    *)
(* as it likes, also after exhaustion, emitting a record per Active step   *)
(***************************************************************************)
InitCursor ==
    /\ reg \in Registries
    /\ hValid = TRUE
    /\ args \in ArgSets
    /\ query = BuildQuery(args)
    /\ result = EINVAL
    /\ ret = NoReturn
    /\ sink = <<>>
    /\ calls = <<>>
    /\ pc = "c_first"

\* emit(sink, descriptor): the whole record of one Active step
RecordText(r, valid, q, showValue) ==
    NameText(q)
    \o (IF showValue THEN <<"=">> \o VAR_Print(r, valid, q.hVar) ELSE <<>>)
    \o <<"\n">>

CursorFirst ==
    /\ pc = "c_first"
    /\ LET r == VAR_GetFirst(reg, hValid, query)
       IN  /\ query' = r.query
           /\ result' = r.rc
           /\ calls' = Append(calls, Call("first", r.rc, r.query.hVar))
           /\ sink' = IF r.rc = EOK
                      THEN sink \o RecordText(reg, hValid, r.query,
                                    HasBit(r.query.type, QUERY_SHOWVALUE))
                      ELSE sink
    /\ pc' = "c_next"
    /\ UNCHANGED <<reg, hValid, args, ret>>

CursorNext ==
    /\ pc = "c_next"
    /\ Len(calls) < MaxCursorCalls
    /\ LET r == VAR_GetNext(reg, hValid, query)
       IN  /\ query' = r.query
           /\ result' = r.rc
           /\ calls' = Append(calls, Call("next", r.rc, r.query.hVar))
           /\ sink' = IF r.rc = EOK
                      THEN sink \o RecordText(reg, hValid, r.query,
                                    HasBit(r.query.type, QUERY_SHOWVALUE))
                      ELSE sink
    /\ UNCHANGED <<reg, hValid, args, ret, pc>>

NextCursor ==
    \/ CursorFirst
    \/ CursorNext
    \/ ConnLost

SpecCursor == InitCursor /\ [][NextCursor]_vars

(***************************************************************************)
(* Vocabulary of the properties                                            *)
(***************************************************************************)
IsTraversal(c) == c.op \in {"first", "next"}
IsActive(c) == c.op \in {"first", "next"} /\ c.rc = EOK
IsPrint(c) == c.op = "print"

\* the first/next calls made so far, the successful ones, the VAR_Print calls
TraversalCalls == SelectSeq(calls, IsTraversal)
ActiveSteps == SelectSeq(calls, IsActive)
PrintCalls == SelectSeq(calls, IsPrint)

\* the caller's tagspec does not fit the descriptor
Oversized ==
    (~args.tagspec.null) /\ Len(args.tagspec.str) >= MAX_TAGSPEC_LEN

\* the last first/next call reported exhaustion / a fault
Exhausted ==
    TraversalCalls # <<>> /\ TraversalCalls[Len(TraversalCalls)].rc = ENOENT
Faulted ==
    TraversalCalls # <<>> /\ TraversalCalls[Len(TraversalCalls)].rc = EINVAL

\* positions of the newlines of a text
NewlinesOf(s) == {i \in 1..Len(s) : s[i] = "\n"}

\* the complete lines of a text (without their newline), and the unfinished
\* rest after the last newline
Lines(s) ==
    LET nl == NewlinesOf(s)
        Nth(k) == CHOOSE i \in nl : Cardinality({j \in nl : j < i}) = k - 1
        StartOf(k) == IF k = 1 THEN 1 ELSE Nth(k - 1) + 1
    IN  [k \in 1..Cardinality(nl) |-> SubSeq(s, StartOf(k), Nth(k) - 1)]

Rest(s) ==
    LET nl == NewlinesOf(s)
        last == IF nl = {} THEN 0 ELSE CHOOSE i \in nl : \A j \in nl : j <= i
    IN  SubSeq(s, last + 1, Len(s))

\* a line up to its first "=", that is without the value suffix
KeyOf(line) ==
    LET eq == {i \in 1..Len(line) : line[i] = "="}
    IN  IF eq = {} THEN line
        ELSE SubSeq(line, 1, (CHOOSE i \in eq : \A j \in eq : i <= j) - 1)

IsPrefix(a, b) == Len(a) <= Len(b) /\ SubSeq(b, 1, Len(a)) = a

\* the positions of r whose variable satisfies the matcher for q, in order
RECURSIVE MatchingFrom(_, _, _)
MatchingFrom(r, q, i) ==
    IF i > Len(r) THEN <<>>
    ELSE (IF MatchVar(q, r[i]) THEN <<i>> ELSE <<>>) \o MatchingFrom(r, q, i + 1)

\* the record prefix the specification gives a variable: the unsigned id
SpecNameText(v) ==
    IF v.instanceID = U32(0, 0) THEN v.name
    ELSE <<"[">> \o DecU(v.instanceID) \o <<"]">> \o v.name

\* the record prefix as the program's format writes it
CodeNameText(v) == NameText([name |-> v.name, instanceID |-> v.instanceID])

\* the lines written so far without their value suffix, the handles the
\* successful steps returned, and the matches of the descriptor as built
EmittedKeys == [i \in 1..Len(Lines(sink)) |-> KeyOf(Lines(sink)[i])]
StepHandles == [i \in 1..Len(ActiveSteps) |-> ActiveSteps[i].h]
BuiltMatches == MatchingFrom(reg, BuildQuery(args), 1)
KeysOf(hs) == [i \in 1..Len(hs) |-> CodeNameText(reg[hs[i]])]

\* no filter bit is set in the search type (ShowValue is not a filter)
NoFilterBits == BitAnd(args.searchType, QUERY_SHOWVALUE - 1) = 0

(***************************************************************************)
(* Properties                                                              *)
(***************************************************************************)

\* C1: a tagspec of length >= MAX_TAGSPEC_LEN makes VARQUERY_Search return
\* EINVAL without calling VAR_GetFirst or VAR_GetNext.
C1_OversizedRejected ==
    Oversized =>
        /\ TraversalCalls = <<>>
        /\ pc = "done" => ret = EINVAL

\* C2: with an oversized tagspec nothing is ever written to the output.
C2_RejectedNoOutput == Oversized => sink = <<>>

\* C3: when the traversal ends by exhaustion, VARQUERY_Search returns EOK,
\* whether or not records were written before.
C3_ExhaustionIsSuccess == (pc = "done" /\ Exhausted) => ret = EOK

\* C4: every record is the match's name alone when its instance id is 0,
\* otherwise '[' instance id ']' and the name; every record ends with exactly
\* one newline, so the output is a sequence of complete lines, one per step.
C4_RecordForm ==
    /\ Len(Lines(sink)) <= Len(ActiveSteps)
    /\ Len(ActiveSteps) <= Len(Lines(sink)) + 1
    /\ pc = "done" => (Len(Lines(sink)) = Len(ActiveSteps) /\ Rest(sink) = <<>>)
    /\ \A i \in 1..Len(Lines(sink)) :
           EmittedKeys[i] = SpecNameText(reg[ActiveSteps[i].h])

\* C5: with ShowValue set VAR_Print is called exactly once per record, right
\* after the record's '=' and before its newline; with ShowValue unset it is
\* never called.
C5_PrintOncePerRecord ==
    IF HasBit(args.searchType, QUERY_SHOWVALUE)
    THEN /\ Len(PrintCalls) = Len(Lines(sink)) + (IF pc = "emit_nl" THEN 1 ELSE 0)
         /\ \A i \in 1..Len(PrintCalls) :
                /\ PrintCalls[i].at >= 1
                /\ sink[PrintCalls[i].at] = "="
                /\ Cardinality({j \in NewlinesOf(sink) : j <= PrintCalls[i].at})
                       = i - 1
                /\ PrintCalls[i].h = ActiveSteps[i].h
    ELSE PrintCalls = <<>>

C5_Witness ==
    /\ HasBit(args.searchType, QUERY_SHOWVALUE)
    /\ pc = "done"
    /\ Len(PrintCalls) >= 2

\* C6: over an unchanged registry the records written are exactly the
\* variables that satisfy the matcher for the descriptor, each once, in the
\* registry's enumeration order: always a prefix of them, and all of them
\* once the traversal ended by exhaustion.
C6_ExactlyTheMatches ==
    /\ IsPrefix(StepHandles, BuiltMatches)
    /\ IsPrefix(EmittedKeys, KeysOf(BuiltMatches))
    /\ (pc = "done" /\ Exhausted) =>
           (StepHandles = BuiltMatches /\ EmittedKeys = KeysOf(BuiltMatches))

C6_Witness ==
    /\ pc = "done"
    /\ Exhausted
    /\ Len(reg) >= 2
    /\ Len(BuiltMatches) >= 1
    /\ Len(BuiltMatches) < Len(reg)
    /\ Len(Lines(sink)) = Len(BuiltMatches)

\* C7: with no filter bit in the search type a full traversal writes every
\* variable of the registry exactly once, in enumeration order.
C7_NoFilterEmitsAll ==
    (NoFilterBits /\ pc = "done" /\ Exhausted) =>
        EmittedKeys = [i \in 1..Len(reg) |-> CodeNameText(reg[i])]

C7_Witness ==
    /\ NoFilterBits
    /\ pc = "done"
    /\ Exhausted
    /\ Len(reg) >= 2
    /\ Len(Lines(sink)) = Len(reg)

C9_FaultAborts ==
    /\ [](Faulted =>
             /\ pc \in {"return", "done"}
             /\ result = EINVAL
             /\ pc = "done" => ret = EINVAL)
    /\ [][Faulted => (sink' = sink /\ calls' = calls)]_vars

C9_Witness ==
    /\ pc = "done"
    /\ Faulted
    /\ Len(Lines(sink)) >= 1
    /\ ret = EINVAL

\* C10: over an empty registry the only library call is VAR_GetFirst, it
\* reports exhaustion (the connection being valid), and nothing is written.
C10_EmptyRegistry ==
    Len(reg) = 0 =>
        /\ sink = <<>>
        /\ Len(calls) <= 1
        /\ pc \in {"return", "done"} => Len(calls) = 1
        /\ calls # <<>> =>
               /\ calls[1].op = "first"
               /\ hValid => calls[1].rc = ENOENT

C10_Witness ==
    /\ Len(reg) = 0
    /\ pc = "done"
    /\ hValid
    /\ calls # <<>>
    /\ calls[1].rc = ENOENT

\* the registry of the end-to-end scenario: temp, then humidity
ScenarioRegistry ==
    << [name |-> temp, instanceID |-> U32(0, 0), flags |-> 1,
        tags |-> {sensor}, value |-> <<"2", "1">>],
       [name |-> humidity, instanceID |-> U32(0, 2), flags |-> 2,
        tags |-> {sensor, outdoor}, value |-> <<"4", "0">>] >>

HumidityLine == <<"[", "2", "]">> \o humidity \o <<"\n">>

\* C11: over the registry temp, humidity a search with only TagsFilter and
\* tagspec "sensor" writes exactly "temp" and "[2]humidity", one per line; a
\* search with only FlagsFilter and flags mask 2 writes exactly "[2]humidity".
C11_Scenario ==
    (reg = ScenarioRegistry /\ pc = "done" /\ Exhausted) =>
        /\ (args.searchType = QUERY_TAGS /\ args.tagspec = StrPtr(sensor)) =>
               sink = temp \o <<"\n">> \o HumidityLine
        /\ (args.searchType = QUERY_FLAGS /\ args.flags = 2) =>
               sink = HumidityLine

C11_Witness ==
    /\ reg = ScenarioRegistry
    /\ pc = "done"
    /\ Exhausted
    /\ args.searchType = QUERY_FLAGS
    /\ args.flags = 2
    /\ sink = HumidityLine

C11_WitnessTags ==
    /\ reg = ScenarioRegistry
    /\ pc = "done"
    /\ Exhausted
    /\ args.searchType = QUERY_TAGS
    /\ args.tagspec = StrPtr(sensor)
    /\ Len(Lines(sink)) = 2

\* C12: no VAR_GetFirst or VAR_GetNext call is made with a descriptor whose
\* type has both QUERY_REGEX and QUERY_MATCH set.
C12_OneNameMode ==
    TraversalCalls # <<>> =>
        ~(HasBit(query.type, QUERY_REGEX) /\ HasBit(query.type, QUERY_MATCH))

\* C13: the descriptor's tagspec is always shorter than MAX_TAGSPEC_LEN, and
\* is the caller's tagspec verbatim when that is shorter than the maximum
\* and empty otherwise (NULL, or too long and not copied).
C13_TagspecBounded ==
    /\ Len(query.tagspec) < MAX_TAGSPEC_LEN
    /\ pc = "build" => query.tagspec = <<>>
    /\ pc # "build" =>
           query.tagspec =
               (IF args.tagspec.null \/ Len(args.tagspec.str) >= MAX_TAGSPEC_LEN
                THEN <<>> ELSE args.tagspec.str)

C13_Witness ==
    /\ pc = "next"
    /\ ~args.tagspec.null
    /\ Len(args.tagspec.str) > Len(sensor)
    /\ query.tagspec = args.tagspec.str

\* the tagspec the construction gives the descriptor for the caller's tagspec
CallerTagspec ==
    IF args.tagspec.null \/ Len(args.tagspec.str) >= MAX_TAGSPEC_LEN
    THEN <<>> ELSE args.tagspec.str

\* the search type, pattern, tagspec and flags mask of q are the caller's
FixedCriteria(q) ==
    /\ q.type = args.searchType
    /\ q.match = args.match
    /\ q.tagspec = CallerTagspec
    /\ q.flags = args.flags

\* a step changes at most the cursor-state fields of the descriptor, and only
\* when it is a first/next call
CursorFrame ==
    /\ pc \in {"first", "next"} =>
           [query' EXCEPT !.name = query.name,
                          !.instanceID = query.instanceID,
                          !.hVar = query.hVar,
                          !.context = query.context] = query
    /\ pc \notin {"build", "first", "next"} => query' = query

\* C14 as claimed: at every first/next call the search type, pattern,
\* tagspec, instance id and flags mask of the descriptor are the values given
\* at construction, and only first/next change the descriptor (its cursor
\* state), never the emitter.
C14_CriteriaFixed ==
    [][/\ pc' \in {"first", "next"} =>
              (FixedCriteria(query') /\ query'.instanceID = args.instanceID)
       /\ CursorFrame]_vars

\* C14 as amended: the search type, pattern, tagspec and flags mask are the
\* constructed values at every first/next call; the instanceID field is also
\* the current match's instance id, so it keeps the constructed value only
\* up to the first successful step, or throughout when QUERY_INSTANCEID is
\* set; the descriptor changes only in first/next calls and only in its
\* name, instanceID, handle and position.
C14_CriteriaFixedButInstance ==
    [][/\ pc' \in {"first", "next"} =>
              /\ FixedCriteria(query')
              /\ (ActiveSteps' = <<>> \/ HasBit(args.searchType, QUERY_INSTANCEID))
                     => query'.instanceID = args.instanceID
              /\ ActiveSteps' # <<>> =>
                     query'.instanceID =
                         reg[ActiveSteps'[Len(ActiveSteps')].h].instanceID
       /\ CursorFrame]_vars

C14_Witness ==
    /\ pc = "next"
    /\ query.instanceID # args.instanceID
    /\ Len(Lines(sink)) >= 1
    /\ FixedCriteria(query)

\* C15: every VAR_Print call is given the handle that the most recent
\* first/next call wrote, that call was successful, and no first/next call
\* lies between the two; so no handle is used before the first successful
\* step, after a later step was requested, or after exhaustion or a fault.
C15_HandleFresh ==
    \A k \in 1..Len(calls) :
        calls[k].op = "print" =>
            /\ k > 1
            /\ IsActive(calls[k - 1])
            /\ calls[k - 1].h = calls[k].h
            /\ calls[k].h \in 1..Len(reg)

C15_Witness ==
    /\ pc = "done"
    /\ \E j, k \in 1..Len(calls) :
           /\ j < k
           /\ calls[j].op = "print"
           /\ calls[k].op = "print"
           /\ calls[j].h # calls[k].h
    /\ calls[Len(calls)].op = "next"

\* the emitter is between the first write of a record and its newline
InRecord == pc \in {"emit_name", "emit_eq", "print", "emit_nl"}

\* C16: the number of complete records in the output equals the number of
\* EOK results of VAR_GetFirst/VAR_GetNext so far, less the one record that
\* is being written.
C16_EmitOncePerStep ==
    Len(Lines(sink)) = Len(ActiveSteps) - (IF InRecord THEN 1 ELSE 0)

C16_Witness ==
    /\ pc = "emit_nl"
    /\ Len(ActiveSteps) = 2
    /\ Len(Lines(sink)) = 1
    /\ Rest(sink) # <<>>

\* C17: VAR_GetFirst is the first library call and is made once; every
\* VAR_GetNext follows a successful first/next whose record, newline
\* included, is completely written; after a result other than EOK no
\* further library call is made.
C17_CursorStateMachine ==
    /\ \A i \in 1..Len(TraversalCalls) :
           /\ (i = 1) <=> (TraversalCalls[i].op = "first")
           /\ i > 1 =>
                  /\ TraversalCalls[i - 1].rc = EOK
                  /\ TraversalCalls[i].at >= 1
                  /\ sink[TraversalCalls[i].at] = "\n"
                  /\ Cardinality({j \in NewlinesOf(sink) :
                                      j <= TraversalCalls[i].at}) = i - 1
    /\ calls # <<>> => calls[1].op = "first"
    /\ \A k \in 1..Len(calls) :
           (IsTraversal(calls[k]) /\ calls[k].rc # EOK) => k = Len(calls)
    /\ pc \in {"return", "done"} => TraversalCalls # <<>>

C17_Witness ==
    /\ pc = "done"
    /\ Len(TraversalCalls) >= 3
    /\ TraversalCalls[Len(TraversalCalls)].rc # EOK
    /\ HasBit(args.searchType, QUERY_SHOWVALUE)

\* C18: for every instance id other than 0 the record starts with '[', the
\* decimal digits of the id as an unsigned 32-bit value, and ']'.
C18_UnsignedInstanceId ==
    \A i \in 1..Len(Lines(sink)) :
        LET id == reg[ActiveSteps[i].h].instanceID
        IN  id # U32(0, 0) =>
                IsPrefix(<<"[">> \o DecU(id) \o <<"]">>, Lines(sink)[i])

\* C19: over a finite, unchanged registry whose calls return, the search
\* returns, after at most one VAR_GetFirst call and one VAR_GetNext call per
\* variable of the registry.
C19_Terminates ==
    /\ <>(pc = "done")
    /\ [](Len(TraversalCalls) <= Len(reg) + 1)

C19_Witness ==
    /\ pc = "done"
    /\ Exhausted
    /\ Len(reg) >= 2
    /\ Len(TraversalCalls) = Len(reg) + 1
    /\ ret = ENOENT
====
